---------------------------- MODULE Spec2Model ----------------------------
(***************************************************************************)
(* almanac-collate: src/main.rs.                                           *)
(*                                                                         *)
(* Two input files of $PSTMALMANAC / $PSTMEPHEM sentences are read line    *)
(* by line; every line goes through process_line, and the record it yields *)
(* is merged into the registry `sats` (a HashMap keyed by sat.satid) by    *)
(* the loop body of process_file.  main then emits the registry.           *)
(*                                                                         *)
(* Text is modelled as a sequence of one-character strings, bytes as       *)
(* numbers in 0..255.  A Rust panic (index out of bounds, .expect on an    *)
(* Err) unwinds main: it is the result tag Panic and the control state     *)
(* panicked.                                                               *)
(***************************************************************************)
EXTENDS Integers, Sequences, FiniteSets, TLC

VARIABLES
    pc,        \* position in main: "file0", "file1", "output", "done", "panicked"
    argc,      \* args.len(): 3 (two input files) or 4 (an output file as well)
    sats,      \* the registry: sats in main, a map satid -> SatRec
    nread,     \* number of loop iterations of process_file executed so far
    line,      \* the loop variable `line` of the latest iteration
    res,       \* what process_line(line) returned in the latest iteration
    branch,    \* the branch the latest iteration took through the loop body
    decoded,   \* every record process_line has returned Ok so far (without nmea)
    again,     \* the latest iteration read the same line as the one before it
    out,       \* what main has emitted: the records, in the order emitted
    rec1, rec2, rec3,   \* the comparator's arguments (CmpSpec)
    cmp                 \* the comparator's results on them (CmpSpec)

vars == <<pc, argc, sats, nread, line, res, branch, decoded, again, out, rec1, rec2, rec3, cmp>>

---------------------------------------------------------------------------
(* Bounds of the model *)

\* loop iterations of process_file over both files together
MaxLines == 4
\* the comparator's fields range over 0..MaxField in CmpSpec
MaxField == 1

---------------------------------------------------------------------------
(* Characters and bytes *)

\* the characters of the input alphabet: punctuation, digits, letters
Punct == <<"$", "*", "+", ",", "-">>

PunctCode == <<36, 42, 43, 44, 45>>

Upper == <<"A", "B", "C", "D", "E", "F", "G", "H", "I", "J", "K", "L", "M",
           "N", "O", "P", "Q", "R", "S", "T", "U", "V", "W", "X", "Y", "Z">>

Lower == <<"a", "b", "c", "d", "e", "f", "g", "h", "i", "j", "k", "l", "m",
           "n", "o", "p", "q", "r", "s", "t", "u", "v", "w", "x", "y", "z">>

Index(tab, c) == CHOOSE i \in 1..Len(tab) : tab[i] = c

In(tab, c) == \E i \in 1..Len(tab) : tab[i] = c

Digits == <<"0", "1", "2", "3", "4", "5", "6", "7", "8", "9">>

IsDigit(c) == In(Digits, c)

DigitVal(c) == Index(Digits, c) - 1

\* the byte of a character, as str::bytes yields it (ASCII)
Ord(c) ==
    IF In(Digits, c) THEN 47 + Index(Digits, c)
    ELSE IF In(Upper, c) THEN 64 + Index(Upper, c)
    ELSE IF In(Lower, c) THEN 96 + Index(Lower, c)
    ELSE PunctCode[Index(Punct, c)]

HexUpper == <<"0", "1", "2", "3", "4", "5", "6", "7", "8", "9", "A", "B", "C", "D", "E", "F">>

HexLower == <<"0", "1", "2", "3", "4", "5", "6", "7", "8", "9", "a", "b", "c", "d", "e", "f">>

IsHexDigit(c) == In(HexUpper, c) \/ In(HexLower, c)

HexVal(c) == IF In(HexUpper, c) THEN Index(HexUpper, c) - 1 ELSE Index(HexLower, c) - 1

\* u8 ^ u8
RECURSIVE Xor(_, _)
Xor(a, b) ==
    IF a = 0 THEN b
    ELSE IF b = 0 THEN a
    ELSE (((a % 2) + (b % 2)) % 2) + 2 * Xor(a \div 2, b \div 2)

---------------------------------------------------------------------------
(* Text operations of the standard library and the hex crate *)

HasChar(s, sep) == \E i \in 1..Len(s) : s[i] = sep

FirstIndex(s, sep) == CHOOSE i \in 1..Len(s) : s[i] = sep /\ \A j \in 1..(i - 1) : s[j] /= sep

\* str::split on a one-character separator, collected
RECURSIVE Split(_, _)
Split(s, sep) ==
    IF ~HasChar(s, sep) THEN <<s>>
    ELSE LET i == FirstIndex(s, sep)
         IN  <<SubSeq(s, 1, i - 1)>> \o Split(SubSeq(s, i + 1, Len(s)), sep)

RECURSIVE DecValue(_)
DecValue(ds) ==
    IF Len(ds) = 0 THEN 0
    ELSE 10 * DecValue(SubSeq(ds, 1, Len(ds) - 1)) + DigitVal(ds[Len(ds)])

AllDigits(ds) == Len(ds) > 0 /\ \A i \in 1..Len(ds) : IsDigit(ds[i])

\* str::parse::<u16>: an optional '+', then digits, the value at most 65535
ParseU16(s) ==
    LET ds == IF Len(s) > 0 /\ s[1] = "+" THEN Tail(s) ELSE s
    IN  IF AllDigits(ds) /\ DecValue(ds) <= 65535
        THEN [ok |-> TRUE, n |-> DecValue(ds)]
        ELSE [ok |-> FALSE, n |-> 0]

\* str::parse::<i32>: an optional '+' or '-', then digits, the value in range
ParseI32(s) ==
    LET neg == Len(s) > 0 /\ s[1] = "-"
        ds  == IF Len(s) > 0 /\ (s[1] = "+" \/ s[1] = "-") THEN Tail(s) ELSE s
        v   == IF neg THEN 0 - DecValue(ds) ELSE DecValue(ds)
    IN  IF AllDigits(ds) /\ v >= (0 - 2147483647) - 1 /\ v <= 2147483647
        THEN [ok |-> TRUE, n |-> v]
        ELSE [ok |-> FALSE, n |-> 0]

\* hex::decode: Err on an odd length or a character that is no hex digit
HexDecode(s) ==
    IF (Len(s) % 2) /= 0 \/ \E i \in 1..Len(s) : ~IsHexDigit(s[i])
    THEN [ok |-> FALSE, bytes |-> <<>>]
    ELSE [ok |-> TRUE,
          bytes |-> [i \in 1..(Len(s) \div 2) |->
                        16 * HexVal(s[2 * i - 1]) + HexVal(s[2 * i])]]

---------------------------------------------------------------------------
(* Records *)

\* SatRec::default()
DefaultSatRec ==
    [satid |-> 0, week |-> 0, toa |-> 0, toe |-> 0, toc |-> 0,
     rec_type |-> "Undefined", nmea |-> <<>>]

\* the two declared lengths process_line accepts
AlmanacLen == 40

EphemerisLen == 64

\* the sentence keywords
ALMANAC == <<"$", "P", "S", "T", "M", "A", "L", "M", "A", "N", "A", "C">>

EPHEM == <<"$", "P", "S", "T", "M", "E", "P", "H", "E", "M">>

RECURSIVE Pow2(_)
Pow2(n) == IF n = 0 THEN 1 ELSE 2 * Pow2(n - 1)

\* v truncated to an unsigned integer of `width` bits; a byte shifted by at most
\* 12 bits is below 2^20, so 32 bits truncate nothing
Truncate(v, width) == IF width >= 31 THEN v ELSE v % Pow2(width)

\* x.checked_shl(sh).unwrap_or(0) on an unsigned integer of `width` bits:
\* None only when sh >= width, otherwise the shifted value truncated to the width
ShlOr0(x, sh, width) == IF sh >= width THEN 0 ELSE Truncate(x * Pow2(sh), width)

\* bytes[from..] of a Vec indexed from 0; the caller has checked from <= len
SliceFrom(bytes, from) == SubSeq(bytes, from + 1, Len(bytes))

\* The fill_* functions index the payload without a length check: an index or a
\* slice start beyond the payload panics (ok = FALSE).

fill_gps_almanac(bytes) ==
    IF Len(bytes) < 4 THEN [ok |-> FALSE]
    ELSE [ok |-> TRUE,
          satid |-> bytes[1],
          week |-> ShlOr0(bytes[3], 8, 16) + bytes[2],
          toa |-> bytes[4],
          rem |-> SliceFrom(bytes, 4)]

fill_gps_ephemeris(bytes) ==
    IF Len(bytes) < 6 THEN [ok |-> FALSE]
    ELSE [ok |-> TRUE,
          week |-> ShlOr0(bytes[2], 8, 16) + bytes[1],
          toe |-> ShlOr0(bytes[4], 8, 16) + bytes[3],
          toc |-> ShlOr0(bytes[6], 8, 16) + bytes[5],
          rem |-> SliceFrom(bytes, 5)]

fill_glonass_alamanc(bytes) ==
    IF Len(bytes) < 4 THEN [ok |-> FALSE]
    ELSE [ok |-> TRUE,
          satid |-> bytes[1],
          week |-> ShlOr0(bytes[3], 8, 16) + bytes[2],
          toa |-> bytes[4],
          rem |-> SliceFrom(bytes, 4)]

fill_glonass_ephemeris(bytes) ==
    IF Len(bytes) < 5 THEN [ok |-> FALSE]
    ELSE [ok |-> TRUE,
          week |-> ShlOr0(bytes[2], 8, 16) + bytes[1],
          toe |-> ShlOr0(bytes[4], 12, 32) + ShlOr0(bytes[3], 4, 32) + bytes[5],
          rem |-> SliceFrom(bytes, 5)]

fill_galileo_almanac(bytes) ==
    IF Len(bytes) < 6 THEN [ok |-> FALSE]
    ELSE [ok |-> TRUE,
          satid |-> ShlOr0(bytes[2], 8, 16) + bytes[1],
          svid |-> bytes[3],
          week |-> ShlOr0(bytes[5], 8, 16) + bytes[4],
          toa |-> bytes[6],
          rem |-> SliceFrom(bytes, 6)]

---------------------------------------------------------------------------
(* process_line *)

Ok(sat) == [tag |-> "Ok", sat |-> sat, msg |-> "ok"]

Err(msg) == [tag |-> "Err", sat |-> DefaultSatRec, msg |-> msg]

Panic(msg) == [tag |-> "Panic", sat |-> DefaultSatRec, msg |-> msg]

\* checksum after the loop `for c in chars.bytes() { checksum ^= c }` from 0: the
\* XOR of all the bytes of chars. XOR is associative with unit 0, so the fold is
\* computed over the two halves of chars to keep the evaluation shallow.
RECURSIVE XorFold(_)
XorFold(chars) ==
    IF Len(chars) = 0 THEN 0
    ELSE IF Len(chars) = 1 THEN Xor(0, Ord(chars[1]))
    ELSE LET h == Len(chars) \div 2
         IN  Xor(XorFold(SubSeq(chars, 1, h)), XorFold(SubSeq(chars, h + 1, Len(chars))))

\* check_checksum returning Ok(sum) on both branches
check_checksum_always_ok(chars, sum) == XorFold(chars) = sum \/ XorFold(chars) /= sum

\* TRUE for Ok(sum), FALSE for Err("checksum failed")
check_checksum(chars, sum) == XorFold(chars) = sum

\* the almanac branch of process_line, after the checksum has passed
decode_almanac(sat, satid, len, bytes, l) ==
    IF len /= AlmanacLen THEN Err("incorrect length")
    ELSE IF satid <= 32 THEN
        LET gps_rec == fill_gps_almanac(bytes)
        IN  IF ~gps_rec.ok THEN Panic("index out of bounds")
            ELSE Ok([sat EXCEPT !.satid = gps_rec.satid, !.week = gps_rec.week,
                                !.toa = gps_rec.toa, !.nmea = l])
    ELSE IF satid >= 33 /\ satid <= 96 THEN
        LET glonass_rec == fill_glonass_alamanc(bytes)
        IN  IF ~glonass_rec.ok THEN Panic("index out of bounds")
            ELSE Ok([sat EXCEPT !.satid = glonass_rec.satid, !.week = glonass_rec.week,
                                !.toa = glonass_rec.toa, !.nmea = l])
    ELSE IF satid >= 301 /\ satid <= 336 THEN
        LET galileo_rec == fill_galileo_almanac(bytes)
        IN  IF ~galileo_rec.ok THEN Panic("index out of bounds")
            ELSE Ok([sat EXCEPT !.satid = galileo_rec.satid, !.week = galileo_rec.week,
                                !.toa = galileo_rec.toa, !.nmea = l])
    ELSE Ok([sat EXCEPT !.nmea = l])

\* the ephemeris branch of process_line, after the checksum has passed
decode_ephemeris(sat, satid, len, bytes, l) ==
    IF len /= EphemerisLen THEN Err("incorrect length")
    ELSE IF satid <= 32 THEN
        LET gps_rec == fill_gps_ephemeris(bytes)
        IN  IF ~gps_rec.ok THEN Panic("index out of bounds")
            ELSE Ok([sat EXCEPT !.satid = satid, !.week = gps_rec.week,
                                !.toc = gps_rec.toc, !.toe = gps_rec.toe, !.nmea = l])
    ELSE IF satid >= 33 /\ satid <= 96 THEN
        LET glonass_rec == fill_glonass_ephemeris(bytes)
        IN  IF ~glonass_rec.ok THEN Panic("index out of bounds")
            ELSE Ok([sat EXCEPT !.satid = satid, !.week = glonass_rec.week,
                                !.toe = glonass_rec.toe, !.nmea = l])
    ELSE Ok([sat EXCEPT !.nmea = l])

\* lines 194-255: the payload and the checksum are split, hex-decoded and checked,
\* then the payload is decoded by kind and satellite id
process_payload(sat, satid, len, field3, l) ==
    LET record == Split(field3, "*")
    IN  IF Len(record) < 2 THEN Panic("index out of bounds")
        ELSE
        LET sum == HexDecode(record[2])
        IN  IF ~sum.ok THEN Panic("failed to decode crc")
            ELSE
            LET bytes == HexDecode(record[1])
                chars == Split(l, "*")
            IN  IF ~bytes.ok THEN Panic("failed to decode record")
                ELSE IF Len(sum.bytes) = 0 THEN Panic("index out of bounds")
                ELSE IF ~check_checksum(Tail(chars[1]), sum.bytes[1])
                     THEN Err("cehcksum failed")
                ELSE IF sat.rec_type = "Almanac"
                     THEN decode_almanac(sat, satid, len, bytes.bytes, l)
                ELSE decode_ephemeris(sat, satid, len, bytes.bytes, l)

process_line(l) ==
    LET field == Split(l, ",")
    IN  IF Len(field) /= 4 THEN Err("malformed line")
        ELSE IF field[1] /= ALMANAC /\ field[1] /= EPHEM THEN Err("unknown record")
        ELSE
        LET sat   == [DefaultSatRec EXCEPT
                        !.rec_type = IF field[1] = ALMANAC THEN "Almanac" ELSE "Ephemeris"]
            satid == ParseU16(field[2])
            len   == ParseI32(field[3])
        IN  IF ~satid.ok THEN Err("No sat id found")
            ELSE IF ~len.ok THEN Err("No length found")
            ELSE process_payload(sat, satid.n, len.n, field[4], l)

---------------------------------------------------------------------------
(* Freshness comparison: compare_date returns Ok(n) or Err *)

CmpOk(n) == [ok |-> TRUE, n |-> n]

CmpErr == [ok |-> FALSE, n |-> 0]

\* compare_almanac_date looking at toa before week
compare_almanac_date_toa_first(r1, r2) ==
    IF r1.rec_type /= r2.rec_type THEN CmpErr
    ELSE IF r1.toa > r2.toa THEN CmpOk(2)
    ELSE IF r1.toa < r2.toa THEN CmpOk(-2)
    ELSE IF r1.week > r2.week THEN CmpOk(1)
    ELSE IF r1.week < r2.week THEN CmpOk(-1)
    ELSE CmpOk(0)

compare_almanac_date(r1, r2) ==
    IF r1.rec_type /= r2.rec_type THEN CmpErr
    ELSE IF r1.week > r2.week THEN CmpOk(1)
    ELSE IF r1.week < r2.week THEN CmpOk(-1)
    ELSE IF r1.toa > r2.toa THEN CmpOk(2)
    ELSE IF r1.toa < r2.toa THEN CmpOk(-2)
    ELSE CmpOk(0)

\* compare_ephemeris_date without the toe comparison
compare_ephemeris_date_no_toe(r1, r2) ==
    IF r1.rec_type /= r2.rec_type THEN CmpErr
    ELSE IF r1.week > r2.week THEN CmpOk(1)
    ELSE IF r1.week < r2.week THEN CmpOk(-1)
    ELSE IF r1.toc > r2.toc THEN CmpOk(3)
    ELSE IF r1.toc < r2.toc THEN CmpOk(-3)
    ELSE CmpOk(0)

compare_ephemeris_date(r1, r2) ==
    IF r1.rec_type /= r2.rec_type THEN CmpErr
    ELSE IF r1.week > r2.week THEN CmpOk(1)
    ELSE IF r1.week < r2.week THEN CmpOk(-1)
    ELSE IF r1.toe > r2.toe THEN CmpOk(2)
    ELSE IF r1.toe < r2.toe THEN CmpOk(-2)
    ELSE IF r1.toc > r2.toc THEN CmpOk(3)
    ELSE IF r1.toc < r2.toc THEN CmpOk(-3)
    ELSE CmpOk(0)

\* compare_date comparing the weeks of records of any two kinds
compare_date_kind_blind(r1, r2) ==
    IF r1.rec_type = r2.rec_type /\ r1.rec_type = "Almanac" THEN compare_almanac_date(r1, r2)
    ELSE IF r1.rec_type = r2.rec_type /\ r1.rec_type = "Ephemeris" THEN compare_ephemeris_date(r1, r2)
    ELSE IF r1.week > r2.week THEN CmpOk(1)
    ELSE IF r1.week < r2.week THEN CmpOk(-1)
    ELSE CmpOk(0)

compare_date(r1, r2) ==
    IF r1.rec_type /= r2.rec_type THEN CmpErr
    ELSE IF r1.rec_type = "Almanac" THEN compare_almanac_date(r1, r2)
    ELSE IF r1.rec_type = "Ephemeris" THEN compare_ephemeris_date(r1, r2)
    ELSE CmpErr

---------------------------------------------------------------------------
(* The registry: HashMap<u16, SatRec> *)

EmptyMap == [k \in {} |-> DefaultSatRec]

contains_key(m, k) == k \in DOMAIN m

remove(m, k) == [j \in (DOMAIN m) \ {k} |-> m[j]]

insert(m, k, v) == [j \in (DOMAIN m) \cup {k} |-> IF j = k THEN v ELSE m[j]]

\* the loop body without the satid test
skip_default_never(sat) == sat.satid = 0 /\ sat.satid /= 0

\* line 351: the record is dropped when its satid is 0
skip_default(sat) == sat.satid = 0

\* the replacement without its insert
replace_remove_only(m, sat) == remove(m, sat.satid)

\* lines 371-372: the stored record is removed and the new one inserted
replace(m, sat) == insert(remove(m, sat.satid), sat.satid, sat)

\* lines 351-376: what one Ok record does to the registry, and the branch taken
offer(m, sat) ==
    IF skip_default(sat) THEN [sats |-> m, branch |-> "zero"]
    ELSE IF ~contains_key(m, sat.satid)
         THEN [sats |-> insert(m, sat.satid, sat), branch |-> "insert"]
    ELSE LET c == compare_date(sat, m[sat.satid])
         IN  IF ~c.ok THEN [sats |-> m, branch |-> "incomparable"]
             ELSE IF c.n > 0 THEN [sats |-> replace(m, sat), branch |-> "replace"]
             ELSE [sats |-> m, branch |-> "skip"]

---------------------------------------------------------------------------
(* Input lines: the sentences the two files may hold *)

RECURSIVE DecText(_)
DecText(n) == IF n < 10 THEN <<Digits[n + 1]>> ELSE DecText(n \div 10) \o <<Digits[(n % 10) + 1]>>

RECURSIVE HexText(_)
HexText(bytes) ==
    IF Len(bytes) = 0 THEN <<>>
    ELSE <<HexUpper[(bytes[1] \div 16) + 1], HexUpper[(bytes[1] % 16) + 1]>> \o HexText(Tail(bytes))

\* bytes followed by zero bytes up to n bytes
Pad(bytes, n) == [i \in 1..n |-> IF i <= Len(bytes) THEN bytes[i] ELSE 0]

\* "<keyword>,<id>,<len>,<payload>"
Body(kw, idtxt, lentxt, payload) == kw \o <<",">> \o idtxt \o <<",">> \o lentxt \o <<",">> \o payload

\* the body followed by '*' and the given checksum text
WithSum(body, sumtxt) == body \o <<"*">> \o sumtxt

\* the body followed by '*' and the checksum a sender computes for it
Sealed(body) == WithSum(body, HexText(<<XorFold(Tail(body))>>))

\* an almanac sentence with a 40-character payload starting with the given bytes
AlmLine(id, bytes) == Sealed(Body(ALMANAC, DecText(id), DecText(40), HexText(Pad(bytes, 20))))

\* an ephemeris sentence with a 64-character payload starting with the given bytes
EphLine(id, bytes) == Sealed(Body(EPHEM, DecText(id), DecText(64), HexText(Pad(bytes, 32))))

\* sentences that decode
GoodLines ==
    { AlmLine(5, <<5, 255, 0, 1>>),          \* GPS almanac 5: week 255, toa 1
      AlmLine(5, <<5, 0, 1, 0>>),            \* GPS almanac 5: week 256, toa 0
      AlmLine(5, <<5, 255, 0, 2>>),          \* GPS almanac 5: week 255, toa 2
      AlmLine(40, <<40, 255, 0, 1>>),        \* GLONASS almanac 40
      AlmLine(301, <<45, 1, 7, 0, 1, 3>>),   \* Galileo almanac 301: week 256, toa 3
      AlmLine(0, <<9, 255, 0, 1>>),          \* outer id 0, payload id 9
      AlmLine(200, <<7, 255, 0, 1>>),        \* outer id in no range
      AlmLine(5, <<0, 255, 0, 1>>),          \* GPS almanac whose payload id is 0
      EphLine(5, <<255, 0, 10, 0, 1, 0>>),   \* GPS ephemeris 5: week 255, toe 10, toc 1
      EphLine(5, <<255, 0, 10, 0, 2, 0>>),   \* GPS ephemeris 5: week 255, toe 10, toc 2
      EphLine(5, <<255, 0, 11, 0, 0, 0>>),   \* GPS ephemeris 5: week 255, toe 11, toc 0
      EphLine(5, <<0, 1, 0, 0, 0, 0>>),      \* GPS ephemeris 5: week 256
      EphLine(40, <<255, 0, 2, 1, 3>>),      \* GLONASS ephemeris 40
      EphLine(301, <<255, 0, 1, 0, 1, 0>>),  \* Galileo ephemeris: no layout
      EphLine(0, <<255, 0, 1, 0, 1, 0>>) }   \* outer id 0 ephemeris

\* sentences process_line answers with Err
BadLines ==
    { <<>>,                                                  \* the empty last line
      ALMANAC \o <<",">> \o DecText(5) \o <<",">> \o DecText(40),    \* three fields
      Sealed(Body(<<"$", "G", "P", "G", "G", "A">>, DecText(5), DecText(40), <<"0", "0">>)),
      Sealed(Body(ALMANAC, <<"x">>, DecText(40), <<"0", "0">>)),
      Sealed(Body(ALMANAC, DecText(5), <<"x">>, <<"0", "0">>)),
      \* the newest almanac of satellite 5 with a wrong checksum byte
      WithSum(Body(ALMANAC, DecText(5), DecText(40), HexText(Pad(<<5, 0, 1, 0>>, 20))), <<"0", "0">>),
      \* declared lengths of the other kind
      Sealed(Body(ALMANAC, DecText(5), DecText(64), HexText(Pad(<<5, 0, 1, 0>>, 20)))),
      Sealed(Body(EPHEM, DecText(5), DecText(40), HexText(Pad(<<0, 1, 0, 0, 0, 0>>, 32)))) }

\* sentences on which process_line panics
PanicLines ==
    { \* the fourth field has no '*'
      Body(ALMANAC, DecText(5), DecText(40), HexText(Pad(<<5, 0, 1, 0>>, 20))),
      \* the payload is not hexadecimal
      WithSum(Body(ALMANAC, DecText(5), DecText(40), <<"Z", "Z">>), <<"0", "0">>),
      \* the checksum is not hexadecimal
      WithSum(Body(ALMANAC, DecText(5), DecText(40), HexText(Pad(<<5, 0, 1, 0>>, 20))), <<"Z", "Z">>),
      \* the checksum text is empty
      WithSum(Body(ALMANAC, DecText(5), DecText(40), HexText(Pad(<<5, 0, 1, 0>>, 20))), <<>>),
      \* a checksum-valid almanac sentence, declared length 40, with an empty payload
      Sealed(Body(ALMANAC, DecText(5), DecText(40), <<>>)) }

Pool == GoodLines \cup BadLines \cup PanicLines

\* process_line on every line of the pool, evaluated once
Parsed == [l \in Pool |-> process_line(l)]

---------------------------------------------------------------------------
(* main *)

\* the date fields and identity of a record, without its text
Key(sat) == [satid |-> sat.satid, rec_type |-> sat.rec_type, week |-> sat.week,
             toa |-> sat.toa, toe |-> sat.toe, toc |-> sat.toc]

NoCmp == [done |-> FALSE, r12 |-> CmpErr, r21 |-> CmpErr, r23 |-> CmpErr,
          r13 |-> CmpErr, r11 |-> CmpErr]

Init ==
    /\ pc = "file0"
    /\ argc \in {3, 4}
    /\ sats = EmptyMap
    /\ nread = 0
    /\ line = <<>>
    /\ res = Err("none")
    /\ branch = "none"
    /\ decoded = {}
    /\ again = FALSE
    /\ out = <<>>
    /\ rec1 = DefaultSatRec /\ rec2 = DefaultSatRec /\ rec3 = DefaultSatRec
    /\ cmp = NoCmp

\* one iteration of the loop of process_file (lines 342-377) on the next line
ProcessLine ==
    /\ pc \in {"file0", "file1"}
    /\ nread < MaxLines
    /\ \E l \in Pool :
          LET r == Parsed[l]
              o == offer(sats, r.sat)
          IN  /\ line' = l
              /\ res' = r
              /\ nread' = nread + 1
              /\ again' = (nread > 0 /\ l = line)
              /\ IF r.tag = "Panic"
                 THEN pc' = "panicked" /\ sats' = sats /\ branch' = "panic"
                      /\ decoded' = decoded
                 ELSE IF r.tag = "Err"
                 THEN pc' = pc /\ sats' = sats /\ branch' = "failed"
                      /\ decoded' = decoded
                 ELSE pc' = pc /\ sats' = o.sats /\ branch' = o.branch
                      /\ decoded' = decoded \cup {Key(r.sat)}
    /\ UNCHANGED <<argc, out, rec1, rec2, rec3, cmp>>

\* process_file(infile0) returns and main calls process_file(infile1) (lines 389-390)
NextFile ==
    /\ pc = "file0"
    /\ pc' = "file1"
    /\ UNCHANGED <<argc, sats, nread, line, res, branch, decoded, again, out, rec1, rec2, rec3, cmp>>

\* process_file(infile1) returns (line 390)
EndOfInput ==
    /\ pc = "file1"
    /\ pc' = "output"
    /\ UNCHANGED <<argc, sats, nread, line, res, branch, decoded, again, out, rec1, rec2, rec3, cmp>>

\* the keys of m in ascending order: sorted_sats after sort_by (lines 392-393)
RECURSIVE sort_by_satid(_, _)
sort_by_satid(m, keys) ==
    IF keys = {} THEN <<>>
    ELSE LET k == CHOOSE x \in keys : \A y \in keys : m[x].satid <= m[y].satid
         IN  <<k>> \o sort_by_satid(m, keys \ {k})

\* the orders in which iterating a HashMap may yield its keys
IterOrders(m) ==
    { f \in [1..Cardinality(DOMAIN m) -> DOMAIN m] :
        \A i, j \in 1..Cardinality(DOMAIN m) : i /= j => f[i] /= f[j] }

\* lines 395-400: with an output file, sorted_sats is written
WriteFile ==
    /\ pc = "output"
    /\ argc > 3
    /\ out' = [i \in 1..Cardinality(DOMAIN sats) |-> sats[sort_by_satid(sats, DOMAIN sats)[i]]]
    /\ pc' = "done"
    /\ UNCHANGED <<argc, sats, nread, line, res, branch, decoded, again, rec1, rec2, rec3, cmp>>

\* lines 401-405: without one, `sats` itself is iterated and printed
PrintStdout ==
    /\ pc = "output"
    /\ ~(argc > 3)
    /\ \E f \in IterOrders(sats) :
          out' = [i \in 1..Cardinality(DOMAIN sats) |-> sats[f[i]]]
    /\ pc' = "done"
    /\ UNCHANGED <<argc, sats, nread, line, res, branch, decoded, again, rec1, rec2, rec3, cmp>>

Next == ProcessLine \/ NextFile \/ EndOfInput \/ WriteFile \/ PrintStdout

Spec == Init /\ [][Next]_vars

---------------------------------------------------------------------------
(* The comparator on its own: three records drawn from a bounded set *)

CmpRecs ==
    { [DefaultSatRec EXCEPT !.satid = 5, !.rec_type = "Almanac", !.week = w, !.toa = a] :
        w \in 0..MaxField, a \in 0..MaxField }
    \cup
    { [DefaultSatRec EXCEPT !.satid = 5, !.rec_type = "Ephemeris", !.week = w, !.toe = e, !.toc = c] :
        w \in 0..MaxField, e \in 0..MaxField, c \in 0..MaxField }

CmpInit ==
    /\ pc = "file0"
    /\ argc = 3
    /\ sats = EmptyMap
    /\ nread = 0
    /\ line = <<>>
    /\ res = Err("none")
    /\ branch = "none"
    /\ decoded = {}
    /\ again = FALSE
    /\ out = <<>>
    /\ rec1 \in CmpRecs /\ rec2 \in CmpRecs /\ rec3 \in CmpRecs
    /\ cmp = NoCmp

\* compare_date applied to the drawn records
Compare ==
    /\ ~cmp.done
    /\ cmp' = [done |-> TRUE,
               r12 |-> compare_date(rec1, rec2),
               r21 |-> compare_date(rec2, rec1),
               r23 |-> compare_date(rec2, rec3),
               r13 |-> compare_date(rec1, rec3),
               r11 |-> compare_date(rec1, rec1)]
    /\ UNCHANGED <<pc, argc, sats, nread, line, res, branch, decoded, again, out, rec1, rec2, rec3>>

CmpNext == Compare

CmpSpec == CmpInit /\ [][CmpNext]_vars

---------------------------------------------------------------------------
(* Vocabulary of the properties, defined on the text and the fields directly *)

\* a loop iteration of process_file has just run
LineStep == nread' = nread + 1

\* lexicographic order on two tuples of the same length
LexLess(a, b) ==
    \E i \in 1..Len(a) : a[i] < b[i] /\ \A j \in 1..(i - 1) : a[j] = b[j]

LexLeq(a, b) == a = b \/ LexLess(a, b)

\* the date of a record: (week, toa) for almanac, (week, toe, toc) for ephemeris
DateOf(r) ==
    IF r.rec_type = "Almanac" THEN <<r.week, r.toa>> ELSE <<r.week, r.toe, r.toc>>

\* the records decoded so far for satellite id
DecodedFor(id) == {k \in decoded : k.satid = id}

OneKind(id) == \A a, b \in DecodedFor(id) : a.rec_type = b.rec_type

\* bit k of byte b
Bit(b, k) == (b \div Pow2(k)) % 2

\* the XOR of the bytes of l strictly between position 1 (the '$') and the first
\* '*', bit by bit: a bit of the result is the parity of that bit over the bytes
StarAt(l) == FirstIndex(l, "*")

TextXor(l) ==
    LET f(i, k) == Bit(Ord(l[i]), k)
        ones(k) == Cardinality({i \in 2..(StarAt(l) - 1) : f(i, k) = 1})
        bit(k)  == (ones(k) % 2) * Pow2(k)
    IN  bit(0) + bit(1) + bit(2) + bit(3) + bit(4) + bit(5) + bit(6) + bit(7)

\* l has a '*' followed by at least two hexadecimal digits: a checksum byte
HasChecksumByte(l) ==
    /\ HasChar(l, "*")
    /\ Len(l) >= StarAt(l) + 2
    /\ IsHexDigit(l[StarAt(l) + 1]) /\ IsHexDigit(l[StarAt(l) + 2])

ChecksumByte(l) == 16 * HexVal(l[StarAt(l) + 1]) + HexVal(l[StarAt(l) + 2])

\* the lines of the pool with a checksum byte that is the XOR of their text, and
\* those with a checksum byte that is not (each evaluated once)
SumRight == {l \in Pool : HasChecksumByte(l) /\ TextXor(l) = ChecksumByte(l)}

SumWrong == {l \in Pool : HasChecksumByte(l) /\ TextXor(l) /= ChecksumByte(l)}

\* the failures process_line reports before it looks at the fourth field
EarlyFailures == {"malformed line", "unknown record", "No sat id found", "No length found"}

\* l got as far as the checksum comparison, and its checksum byte is wrong
ChecksumWrong(l, r) ==
    r.tag /= "Panic" /\ r.msg \notin EarlyFailures /\ l \in SumWrong

\* l got past the checksum comparison
ChecksumValid(l, r) == r.msg \notin EarlyFailures /\ l \in SumRight

\* the number of characters of the payload text of a four-field line with a '*'
PayloadChars(l) == Len(Split(Split(l, ",")[4], "*")[1])

\* the payload length required for the kind of the sentence
RequiredChars(l) == IF Split(l, ",")[1] = ALMANAC THEN AlmanacLen ELSE EphemerisLen

\* the satellite id written in the second field of the sentence
OuterId(l) == ParseU16(Split(l, ",")[2]).n

InNoRange(id) == ~(id >= 1 /\ id <= 32) /\ ~(id >= 33 /\ id <= 96) /\ ~(id >= 301 /\ id <= 336)

---------------------------------------------------------------------------
(* C1 *)

\* C1: once both sources have been processed, for every (non-zero) satellite id
\* whose decoded records are all of one kind, the registry holds a record for the
\* id, that record is one of the decoded ones, its date is the lexicographic
\* maximum of the dates decoded for the id, and compare_date reports no decoded
\* record of the id as newer than it.
C1_NewestKept ==
    pc \in {"output", "done"} =>
        \A k \in decoded :
            (k.satid /= 0 /\ OneKind(k.satid)) =>
                /\ k.satid \in DOMAIN sats
                /\ Key(sats[k.satid]) \in DecodedFor(k.satid)
                /\ LexLeq(DateOf(k), DateOf(sats[k.satid]))
                /\ compare_date(k, sats[k.satid]).ok
                /\ ~(compare_date(k, sats[k.satid]).n > 0)

\* both sources processed, three different dates decoded for satellite 5, all of
\* one kind, and the latest line read is not the one kept
C1_Witness ==
    /\ pc = "done"
    /\ Cardinality(DecodedFor(5)) >= 3
    /\ OneKind(5)
    /\ branch = "skip"
    /\ sats[5].nmea /= line

---------------------------------------------------------------------------
(* C2 *)

\* C2: every per-line failure is recoverable: process_line returns Ok or a
\* classified failure for every line, and the run is never aborted by a line.
C2_EveryLineRecoverable ==
    nread > 0 => (res.tag \in {"Ok", "Err"} /\ pc /= "panicked")

---------------------------------------------------------------------------
(* C3 *)

\* C3: a line is accepted only if the XOR of its text between '$' and '*' equals
\* its checksum byte; a line that reaches the comparison with another checksum
\* byte is rejected with the checksum failure, and the registry is left as it was.
C3_ChecksumGate ==
    [][LineStep =>
        /\ (res'.tag = "Ok" => line' \in SumRight)
        /\ (ChecksumWrong(line', res') =>
                res' = Err("cehcksum failed") /\ branch' = "failed" /\ sats' = sats)
      ]_vars

\* a line with a wrong checksum byte was rejected while satellite 5 was stored
C3_Witness ==
    /\ nread > 0
    /\ ChecksumWrong(line, res)
    /\ res.msg = "cehcksum failed"
    /\ 5 \in DOMAIN sats

---------------------------------------------------------------------------
(* C4 *)

NoZeroEntry(m) == 0 \notin DOMAIN m /\ \A k \in DOMAIN m : m[k].satid /= 0

\* C4: the registry never has key 0 nor a stored record with satid 0, and a decoded
\* record with satid 0 leaves the registry unchanged.
C4_NoSatelliteZero ==
    /\ []NoZeroEntry(sats)
    /\ [][(LineStep /\ res'.tag = "Ok" /\ res'.sat.satid = 0) =>
            (sats' = sats /\ branch' = "zero")]_vars

\* a record with satid 0 and a decoded week was dropped from a non-empty registry
C4_Witness ==
    /\ branch = "zero"
    /\ res.tag = "Ok" /\ res.sat.satid = 0 /\ res.sat.week /= 0
    /\ DOMAIN sats /= {}

---------------------------------------------------------------------------
(* C5 *)

\* C5: what main emits is in strictly ascending satellite-id order (hence without
\* a repeated id), with and without an output file.
C5_OutputAscending ==
    pc = "done" =>
        \A i, j \in 1..Len(out) : i < j => out[i].satid < out[j].satid

---------------------------------------------------------------------------
(* C6 *)

\* C6: a checksum-valid line whose payload has not the length required for its
\* kind is rejected with the incorrect-length failure (no byte is extracted, the
\* run goes on).
C6_ShortPayloadRejected ==
    (nread > 0 /\ ChecksumValid(line, res) /\ PayloadChars(line) /= RequiredChars(line)) =>
        (res = Err("incorrect length") /\ pc /= "panicked")

---------------------------------------------------------------------------
(* C7 *)

\* C7: a valid line whose outer satellite id is in none of the ranges 1-32, 33-96,
\* 301-336 yields a record with satid, week, toa, toe and toc all zero, and the
\* record is neither inserted nor does it replace anything.
C7_UnsupportedIdInert ==
    (nread > 0 /\ res.tag = "Ok" /\ InNoRange(OuterId(line))) =>
        /\ res.sat.satid = 0 /\ res.sat.week = 0 /\ res.sat.toa = 0
        /\ res.sat.toe = 0 /\ res.sat.toc = 0
        /\ branch \notin {"insert", "replace"}

---------------------------------------------------------------------------
(* C8 *)

\* C8: when a record is offered for an id whose stored record is of the other
\* kind, compare_date answers with an error, the candidate is skipped, the stored
\* record stays, and the loop goes on.
C8_KindMismatchSkipped ==
    [][(/\ LineStep
        /\ res'.tag = "Ok"
        /\ res'.sat.satid \in DOMAIN sats
        /\ sats[res'.sat.satid].rec_type /= res'.sat.rec_type)
       =>
       (/\ ~compare_date(res'.sat, sats[res'.sat.satid]).ok
        /\ branch' = "incomparable"
        /\ sats' = sats
        /\ pc' = pc)]_vars

\* an ephemeris record with a later week than the stored almanac record of the
\* same id (or the reverse) was skipped
C8_Witness ==
    /\ branch = "incomparable"
    /\ res.sat.satid \in DOMAIN sats
    /\ sats[res.sat.satid].rec_type /= res.sat.rec_type
    /\ res.sat.week > sats[res.sat.satid].week

---------------------------------------------------------------------------
(* C9 *)

SameKind == rec1.rec_type = rec2.rec_type /\ rec2.rec_type = rec3.rec_type

\* C9: on records of one kind compare_date is a strict weak ordering: it always
\* answers, newer is transitive, equal is transitive, a record equals itself,
\* rec1 is newer than rec2 exactly when rec2 is older than rec1, and newer is the
\* lexicographic order on (week, toa) or (week, toe, toc).
C9_StrictWeakOrder ==
    (cmp.done /\ SameKind) =>
        /\ cmp.r12.ok /\ cmp.r21.ok /\ cmp.r23.ok /\ cmp.r13.ok /\ cmp.r11.ok
        /\ ((cmp.r12.n > 0 /\ cmp.r23.n > 0) => cmp.r13.n > 0)
        /\ ((cmp.r12.n = 0 /\ cmp.r23.n = 0) => cmp.r13.n = 0)
        /\ cmp.r11.n = 0
        /\ (cmp.r12.n > 0 <=> cmp.r21.n < 0)
        /\ (cmp.r12.n > 0 <=> LexLess(DateOf(rec2), DateOf(rec1)))
        /\ (cmp.r12.n = 0 <=> DateOf(rec1) = DateOf(rec2))

\* three ephemeris records in descending order, the first pair decided by toc
C9_Witness ==
    /\ cmp.done /\ SameKind
    /\ rec1.rec_type = "Ephemeris"
    /\ cmp.r12 = CmpOk(3)
    /\ cmp.r23.n > 0
    /\ cmp.r13.n > 0

---------------------------------------------------------------------------
(* C10 *)

\* C10: offering the line that was offered by the iteration before leaves the
\* registry, fields and text of every id, as the first offer left it.
C10_MergeIdempotent ==
    [][(LineStep /\ nread > 0 /\ line' = line) => sats' = sats]_vars

\* a line that replaced the stored record has been offered a second time
C10_Witness ==
    /\ again
    /\ branch = "skip"
    /\ res.tag = "Ok"
    /\ Cardinality(DecodedFor(res.sat.satid)) >= 2
    /\ sats[res.sat.satid] = res.sat

===========================================================================
